---- MODULE Spec2Model ----
(***************************************************************************)
(* Model of apply.py: the submission client that resolves its              *)
(* configuration from the environment, builds the payload, issues one      *)
(* HTTP POST and validates the response.                                   *)
(*                                                                         *)
(* A Python str is a sequence of tokens; a token is either a single        *)
(* character that the code inspects (" ", "/", "\n", ...) or an opaque     *)
(* run of other characters.  Bytes on the wire are token sequences too;    *)
(* the token "\\xff" stands for a byte sequence that is not valid UTF-8.   *)
(***************************************************************************)
EXTENDS Integers, Sequences, FiniteSets, TLC

VARIABLES env, pc, email, repository_link, action_run_link, payload,
          requests, outcome, resp_body, data, stdout, stderr, exit_status

vars == <<env, pc, email, repository_link, action_run_link, payload,
          requests, outcome, resp_body, data, stdout, stderr, exit_status>>

(***************************************************************************)
(* Bounds of the model.                                                    *)
(***************************************************************************)
\* number of padding characters (whitespace around a value, slashes after
\* the server URL) the enumerated environment values carry
MaxPad == 1

(***************************************************************************)
(* Program constants.                                                      *)
(***************************************************************************)
B12_ENDPOINT == <<"https://b12.io/apply/submission">>

NAME == <<"Luciano Almenares">>

RESUME_LINK == <<"https://www.linkedin.com/in/luciano-almenares/">>

DEFAULT_SERVER == <<"https://github.com">>

(***************************************************************************)
(* str methods.                                                            *)
(***************************************************************************)
Whitespace == {" ", "\t", "\n", "\r"}

RECURSIVE rstrip_chars(_, _)
rstrip_chars(s, chars) ==
    IF s # <<>> /\ s[Len(s)] \in chars
    THEN rstrip_chars(SubSeq(s, 1, Len(s) - 1), chars)
    ELSE s

RECURSIVE lstrip_chars(_, _)
lstrip_chars(s, chars) ==
    IF s # <<>> /\ s[1] \in chars
    THEN lstrip_chars(SubSeq(s, 2, Len(s)), chars)
    ELSE s

strip(s) == lstrip_chars(rstrip_chars(s, Whitespace), Whitespace)

\* str.replace(old, new) for a one-token old
replace(s, old, new) == [i \in 1..Len(s) |-> IF s[i] = old THEN new ELSE s[i]]

\* sub occurs in s as a contiguous run
Contains(s, sub) ==
    \E i \in 0..(Len(s) - Len(sub)) : SubSeq(s, i + 1, i + Len(sub)) = sub

(***************************************************************************)
(* The environment.                                                        *)
(***************************************************************************)
Unset == [set |-> FALSE, val |-> <<>>]

Set(v) == [set |-> TRUE, val |-> v]

RECURSIVE Pad(_, _)
Pad(c, k) == IF k = 0 THEN <<>> ELSE <<c>> \o Pad(c, k - 1)

\* a value surrounded by whitespace
Padded(core) == Pad(" ", MaxPad) \o core \o Pad("\n", MaxPad)

EmailValues ==
    {Unset, Set(Padded(<<"me@example.org">>))}
        \cup {Set(Pad(" ", k)) : k \in 0..MaxPad}

TextValues(core) == {Unset, Set(Pad(" ", MaxPad)), Set(Padded(core))}

ServerValues ==
    {Unset, Set(<<>>), Set(<<"https://ghe.example">> \o Pad("/", MaxPad))}

\* the environments the process is started in
Environments ==
    [B12_EMAIL : EmailValues,
     B12_REPOSITORY_LINK : TextValues(<<"https://override.example/repo">>),
     B12_ACTION_RUN_LINK : TextValues(<<"https://override.example/run">>),
     GITHUB_SERVER_URL : ServerValues,
     GITHUB_REPOSITORY : TextValues(<<"owner", "/", "repo">>),
     GITHUB_RUN_ID : TextValues(<<"4711">>),
     ACTION_RUN_LINK : TextValues(<<"https://ci.example/run">>),
     REPOSITORY_LINK : TextValues(<<"https://ci.example/repo">>)]

os_getenv(name, default) == IF env[name].set THEN env[name].val ELSE default

(***************************************************************************)
(* Results of the resolution functions: a returned value, or sys.exit      *)
(* with a message printed to the error stream.                             *)
(***************************************************************************)
Return(v) == [exits |-> FALSE, code |-> 0, err |-> <<>>, val |-> v]

SysExit(code, msg) == [exits |-> TRUE, code |-> code, err |-> msg, val |-> <<>>]

\* required_env without the strip(): a whitespace-only value passes
required_env_nostrip(name) ==
    LET val == os_getenv(name, <<>>)
    IN  IF val = <<>>
        THEN SysExit(2, <<"Missing required environment variable: ", name>>)
        ELSE Return(val)

required_env(name) ==
    LET val == strip(os_getenv(name, <<>>))
    IN  IF val = <<>>
        THEN SysExit(2, <<"Missing required environment variable: ", name>>)
        ELSE Return(val)

\* github_action_run_link that derives the link from the slug alone
github_action_run_link_slug_only ==
    LET server == rstrip_chars(os_getenv("GITHUB_SERVER_URL", DEFAULT_SERVER), {"/"})
        repo == strip(os_getenv("GITHUB_REPOSITORY", <<>>))
        run_id == strip(os_getenv("GITHUB_RUN_ID", <<>>))
    IN  IF repo # <<>>
        THEN Return(server \o <<"/">> \o repo \o <<"/actions/runs/">> \o run_id)
        ELSE required_env("ACTION_RUN_LINK")

github_action_run_link ==
    LET server == rstrip_chars(os_getenv("GITHUB_SERVER_URL", DEFAULT_SERVER), {"/"})
        repo == strip(os_getenv("GITHUB_REPOSITORY", <<>>))
        run_id == strip(os_getenv("GITHUB_RUN_ID", <<>>))
    IN  IF repo # <<>> /\ run_id # <<>>
        THEN Return(server \o <<"/">> \o repo \o <<"/actions/runs/">> \o run_id)
        ELSE required_env("ACTION_RUN_LINK")

\* github_repo_link that prefers the fallback variable to the CI variables
github_repo_link_fallback_first ==
    LET server == rstrip_chars(os_getenv("GITHUB_SERVER_URL", DEFAULT_SERVER), {"/"})
        repo == strip(os_getenv("GITHUB_REPOSITORY", <<>>))
        fallback == strip(os_getenv("REPOSITORY_LINK", <<>>))
    IN  IF fallback # <<>> THEN Return(fallback)
        ELSE IF repo # <<>> THEN Return(server \o <<"/">> \o repo)
        ELSE required_env("REPOSITORY_LINK")

github_repo_link ==
    LET server == rstrip_chars(os_getenv("GITHUB_SERVER_URL", DEFAULT_SERVER), {"/"})
        repo == strip(os_getenv("GITHUB_REPOSITORY", <<>>))
    IN  IF repo # <<>>
        THEN Return(server \o <<"/">> \o repo)
        ELSE required_env("REPOSITORY_LINK")

\* override_or that takes the override whenever the variable is set
override_or_unchecked(name, fallback) ==
    IF env[name].set THEN Return(strip(env[name].val)) ELSE fallback

\* `os.getenv(name, "").strip() or fallback`
override_or(name, fallback) ==
    LET override == strip(os_getenv(name, <<>>))
    IN  IF override # <<>> THEN Return(override) ELSE fallback

(***************************************************************************)
(* The clock and the timestamp.                                            *)
(***************************************************************************)
Instants ==
    {[date |-> "2026-11-03", time |-> "15:05:00", microsecond |-> 0],
     [date |-> "2026-12-31", time |-> "23:59:59", microsecond |-> 999999]}

digits3(n) == <<ToString(n \div 100), ToString((n \div 10) % 10), ToString(n % 10)>>

\* datetime.isoformat(timespec="milliseconds") of an aware UTC datetime
isoformat_ms(now) ==
    <<now.date, "T", now.time, ".">> \o digits3(now.microsecond \div 1000) \o <<"+00:00">>

iso8601_utc_now_ms(now) == replace(isoformat_ms(now), "+00:00", "Z")

PayloadKeys == {"timestamp", "name", "email", "resume_link",
                "repository_link", "action_run_link"}

(***************************************************************************)
(* Python values, as json.loads produces them.                             *)
(***************************************************************************)
PyVal(kind, b, n, s, items) ==
    [kind |-> kind, b |-> b, n |-> n, s |-> s, items |-> items]

None == PyVal("NoneType", FALSE, 0, <<>>, <<>>)

PyBool(b) == PyVal("bool", b, 0, <<>>, <<>>)

PyInt(n) == PyVal("int", FALSE, n, <<>>, <<>>)

PyStr(s) == PyVal("str", FALSE, 0, s, <<>>)

PyList(items) == PyVal("list", FALSE, 0, <<>>, items)

\* items: the sequence of [k, v] entries in insertion order
PyDict(items) == PyVal("dict", FALSE, 0, <<>>, items)

\* bool(v)
truthy(v) ==
    CASE v.kind = "NoneType" -> FALSE
      [] v.kind = "bool" -> v.b
      [] v.kind = "int" -> v.n # 0
      [] v.kind = "str" -> v.s # <<>>
      [] v.kind = "list" -> v.items # <<>>
      [] v.kind = "dict" -> v.items # <<>>

\* dict.get(key): the last entry stored under key, None when there is none
dict_get(d, key) ==
    LET hits == {i \in 1..Len(d.items) : d.items[i].k = key}
    IN  IF hits = {} THEN None
        ELSE d.items[CHOOSE i \in hits : \A j \in hits : j <= i].v

RECURSIVE py_repr(_)
RECURSIVE join_reprs(_, _)

\* ", ".join of the reprs of items[i..]; entries of a dict as key: value
join_reprs(items, i) ==
    IF i > Len(items) THEN <<>>
    ELSE LET it == items[i]
             one == IF "k" \in DOMAIN it
                    THEN py_repr(PyStr(it.k)) \o <<": ">> \o py_repr(it.v)
                    ELSE py_repr(it)
         IN  one \o (IF i < Len(items) THEN <<", ">> ELSE <<>>) \o join_reprs(items, i + 1)

\* repr(v)
py_repr(v) ==
    CASE v.kind = "NoneType" -> <<"None">>
      [] v.kind = "bool" -> IF v.b THEN <<"True">> ELSE <<"False">>
      [] v.kind = "int" -> <<ToString(v.n)>>
      [] v.kind = "str" -> <<"'">> \o v.s \o <<"'">>
      [] v.kind = "list" -> <<"[">> \o join_reprs(v.items, 1) \o <<"]">>
      [] v.kind = "dict" -> <<"{">> \o join_reprs(v.items, 1) \o <<"}">>

\* print(repr(receipt)) in place of print(receipt)
py_str_repr(v) == py_repr(v)

\* str(v), as print() writes it
py_str(v) == IF v.kind = "str" THEN v.s ELSE py_repr(v)

\* print(obj): str(obj) and a newline
print_line(text) == text \o <<"\n">>

(***************************************************************************)
(* json.loads over the tokens of the decoded body.                         *)
(***************************************************************************)
StringLiteral ==
    ("\"\"" :> <<>>) @@ ("\"abc123\"" :> <<"abc123">>) @@ ("\"yes\"" :> <<"yes">>)
    @@ ("\"success\"" :> <<"success">>) @@ ("\"receipt\"" :> <<"receipt">>)

NumberLiteral == ("0" :> 0) @@ ("1" :> 1) @@ ("7" :> 7)

Parsed(v, next) == [ok |-> TRUE, val |-> v, next |-> next]

ParseFail == [ok |-> FALSE, val |-> None, next |-> 0]

RECURSIVE skip_ws(_, _)
skip_ws(toks, i) ==
    IF i <= Len(toks) /\ toks[i] \in Whitespace THEN skip_ws(toks, i + 1) ELSE i

RECURSIVE parse_value(_, _)
RECURSIVE parse_elements(_, _, _)
RECURSIVE parse_members(_, _, _)

parse_value(toks, i0) ==
    LET i == skip_ws(toks, i0)
    IN  IF i > Len(toks) THEN ParseFail
        ELSE LET t == toks[i]
                 j == skip_ws(toks, i + 1)
             IN  CASE t = "null" -> Parsed(None, i + 1)
                   [] t = "true" -> Parsed(PyBool(TRUE), i + 1)
                   [] t = "false" -> Parsed(PyBool(FALSE), i + 1)
                   [] t \in DOMAIN NumberLiteral -> Parsed(PyInt(NumberLiteral[t]), i + 1)
                   [] t \in DOMAIN StringLiteral -> Parsed(PyStr(StringLiteral[t]), i + 1)
                   [] t = "[" ->
                        IF j <= Len(toks) /\ toks[j] = "]"
                        THEN Parsed(PyList(<<>>), j + 1)
                        ELSE parse_elements(toks, j, <<>>)
                   [] t = "{" ->
                        IF j <= Len(toks) /\ toks[j] = "}"
                        THEN Parsed(PyDict(<<>>), j + 1)
                        ELSE parse_members(toks, j, <<>>)
                   [] OTHER -> ParseFail

parse_elements(toks, i, acc) ==
    LET r == parse_value(toks, i)
        j == skip_ws(toks, r.next)
    IN  IF ~r.ok \/ j > Len(toks) THEN ParseFail
        ELSE IF toks[j] = "," THEN parse_elements(toks, j + 1, Append(acc, r.val))
        ELSE IF toks[j] = "]" THEN Parsed(PyList(Append(acc, r.val)), j + 1)
        ELSE ParseFail

parse_members(toks, i0, acc) ==
    LET i == skip_ws(toks, i0)
        c == skip_ws(toks, i + 1)
        r == parse_value(toks, c + 1)
        j == skip_ws(toks, r.next)
    IN  IF i > Len(toks) \/ c > Len(toks) THEN ParseFail
        ELSE IF toks[i] \notin DOMAIN StringLiteral \/ toks[c] # ":" THEN ParseFail
        ELSE IF ~r.ok \/ j > Len(toks) THEN ParseFail
        ELSE LET entry == [k |-> StringLiteral[toks[i]], v |-> r.val]
             IN  IF toks[j] = "," THEN parse_members(toks, j + 1, Append(acc, entry))
                 ELSE IF toks[j] = "}" THEN Parsed(PyDict(Append(acc, entry)), j + 1)
                 ELSE ParseFail

\* json.loads(s): the value, or JSONDecodeError (ok = FALSE)
json_loads(s) ==
    LET r == parse_value(s, 1)
    IN  IF r.ok /\ skip_ws(s, r.next) > Len(s)
        THEN [ok |-> TRUE, val |-> r.val]
        ELSE [ok |-> FALSE, val |-> None]

(***************************************************************************)
(* What the network can answer to the POST.                                *)
(***************************************************************************)
StatusCodes == {200, 201, 204, 404, 500}

SuccessTokens == {"absent", "true", "false", "1"}

ReceiptTokens == {"absent", "\"abc123\"", "\"\"", "7"}

Member(key, tok) == IF tok = "absent" THEN <<>> ELSE <<key, ":", tok>>

ObjectBody(success, receipt) ==
    <<"{">> \o Member("\"success\"", success)
            \o (IF success # "absent" /\ receipt # "absent" THEN <<",", " ">> ELSE <<>>)
            \o Member("\"receipt\"", receipt) \o <<"}">>

ObjectBodies == {ObjectBody(s, r) : s \in SuccessTokens, r \in ReceiptTokens}

OtherJsonBodies == {<<"[", "]">>, <<"[", "\"abc123\"", "]">>, <<"\"abc123\"">>,
                    <<"7">>, <<"null">>, <<"true">>}

NonJsonBodies == {<<>>, <<"not", " ", "json">>, <<"{", "\"success\"", ":">>}

\* a body that is not valid UTF-8
BadUtf8Bodies == {<<"\\xff">>}

Bodies == ObjectBodies \cup OtherJsonBodies \cup NonJsonBodies \cup BadUtf8Bodies

Outcomes ==
    {[kind |-> k, code |-> 0, body |-> <<>>] : k \in {"URLError", "timeout"}}
        \cup {[kind |-> "http", code |-> c, body |-> b] : c \in StatusCodes, b \in Bodies}

\* bytes.decode("utf-8") raises UnicodeDecodeError
decode_raises(bytes) == \E i \in 1..Len(bytes) : bytes[i] = "\\xff"

\* bytes.decode("utf-8", errors="replace")
decode_replace(bytes) == replace(bytes, "\\xff", "\\ufffd")

\* str(e) of the exceptions urlopen and read raise
ExceptionText(kind) ==
    CASE kind = "URLError" -> <<"<urlopen error [Errno 111] Connection refused>">>
      [] kind = "timeout" -> <<"The read operation timed out">>
      [] kind = "UnicodeDecodeError" ->
            <<"'utf-8' codec can't decode byte 0xff in position 0: invalid start byte">>

\* urllib's HTTPErrorProcessor raises HTTPError for every status outside 2xx
raises_HTTPError(code) == ~(200 <= code /\ code < 300)

\* a check that lets every 2xx status through
status_rejected_non2xx(status) == ~(200 <= status /\ status < 300)

\* `if resp.status != 200`
status_rejected(status) == status # 200

\* the HTTPError diagnostic without the body
HTTPError_message_code_only(code, err_body) == <<"HTTPError ", ToString(code)>>

HTTPError_message(code, err_body) == <<"HTTPError ", ToString(code), ": ">> \o err_body

HTTP_message(status, body) == <<"HTTP ", ToString(status), ": ">> \o body

Request_failed_message(text) == <<"Request failed: ">> \o text

NonJSON_message(body) == <<"Non-JSON response: ">> \o body

Unexpected_message(body) == <<"Unexpected response: ">> \o body

\* the interpreter's report of the uncaught AttributeError of `data.get`
Traceback(typename) ==
    <<"Traceback (most recent call last):", "\n",
      "AttributeError: '", typename, "' object has no attribute 'get'">>

\* a check of `success` alone
response_rejected_success_only(success, receipt) == ~truthy(success)

\* `not data.get("success") or not receipt`
response_rejected(success, receipt) == ~truthy(success) \/ ~truthy(receipt)

(***************************************************************************)
(* The run of main().                                                      *)
(***************************************************************************)
NoPayload == [k \in {} |-> <<>>]

NoOutcome == [kind |-> "none", code |-> 0, body |-> <<>>]

Init ==
    /\ env \in Environments
    /\ pc = "email"
    /\ email = <<>>
    /\ repository_link = <<>>
    /\ action_run_link = <<>>
    /\ payload = NoPayload
    /\ requests = <<>>
    /\ outcome = NoOutcome
    /\ resp_body = <<>>
    /\ data = None
    /\ stdout = <<>>
    /\ stderr = <<>>
    /\ exit_status = -1

\* the process ends with this status, having written out and err
Terminate(code, out, err) ==
    /\ pc' = "done"
    /\ exit_status' = code
    /\ stdout' = stdout \o out
    /\ stderr' = stderr \o err

\* a failed request that is tried again
FailRequest_retry(msg) ==
    /\ pc' = "urlopen"
    /\ stderr' = stderr \o print_line(msg)
    /\ UNCHANGED <<stdout, exit_status>>

\* print(msg, file=sys.stderr); sys.exit(1)
FailRequest(msg) == Terminate(1, <<>>, print_line(msg))

\* line 48
ResolveEmail ==
    /\ pc = "email"
    /\ LET r == required_env("B12_EMAIL")
       IN  IF r.exits
           THEN /\ Terminate(r.code, <<>>, print_line(r.err))
                /\ UNCHANGED email
           ELSE /\ email' = r.val
                /\ pc' = "repository_link"
                /\ UNCHANGED <<stdout, stderr, exit_status>>
    /\ UNCHANGED <<env, repository_link, action_run_link, payload, requests,
                   outcome, resp_body, data>>

\* line 53
ResolveRepositoryLink ==
    /\ pc = "repository_link"
    /\ LET r == override_or("B12_REPOSITORY_LINK", github_repo_link)
       IN  IF r.exits
           THEN /\ Terminate(r.code, <<>>, print_line(r.err))
                /\ UNCHANGED repository_link
           ELSE /\ repository_link' = r.val
                /\ pc' = "action_run_link"
                /\ UNCHANGED <<stdout, stderr, exit_status>>
    /\ UNCHANGED <<env, email, action_run_link, payload, requests, outcome,
                   resp_body, data>>

\* line 54
ResolveActionRunLink ==
    /\ pc = "action_run_link"
    /\ LET r == override_or("B12_ACTION_RUN_LINK", github_action_run_link)
       IN  IF r.exits
           THEN /\ Terminate(r.code, <<>>, print_line(r.err))
                /\ UNCHANGED action_run_link
           ELSE /\ action_run_link' = r.val
                /\ pc' = "payload"
                /\ UNCHANGED <<stdout, stderr, exit_status>>
    /\ UNCHANGED <<env, email, repository_link, payload, requests, outcome,
                   resp_body, data>>

\* lines 56-63; the serialisation and the signature of lines 65-79 add no
\* state of their own
BuildPayload ==
    /\ pc = "payload"
    /\ \E now \in Instants :
         payload' = [timestamp |-> iso8601_utc_now_ms(now),
                     name |-> NAME,
                     email |-> email,
                     resume_link |-> RESUME_LINK,
                     repository_link |-> repository_link,
                     action_run_link |-> action_run_link]
    /\ pc' = "urlopen"
    /\ UNCHANGED <<env, email, repository_link, action_run_link, requests,
                   outcome, resp_body, data, stdout, stderr, exit_status>>

\* lines 81-93: the request is sent and the network answers with o
Urlopen ==
    /\ pc = "urlopen"
    /\ requests' = Append(requests,
                          [method |-> "POST", url |-> B12_ENDPOINT, data |-> payload])
    /\ \E o \in Outcomes :
         /\ outcome' = o
         /\ IF o.kind # "http"
            THEN /\ FailRequest(Request_failed_message(ExceptionText(o.kind)))
                 /\ UNCHANGED resp_body
            ELSE IF raises_HTTPError(o.code)
            THEN /\ FailRequest(HTTPError_message(o.code, decode_replace(o.body)))
                 /\ UNCHANGED resp_body
            ELSE IF decode_raises(o.body)
            THEN /\ FailRequest(Request_failed_message(ExceptionText("UnicodeDecodeError")))
                 /\ UNCHANGED resp_body
            ELSE /\ resp_body' = o.body
                 /\ IF status_rejected(o.code)
                    THEN FailRequest(HTTP_message(o.code, o.body))
                    ELSE /\ pc' = "loads"
                         /\ UNCHANGED <<stdout, stderr, exit_status>>
    /\ UNCHANGED <<env, email, repository_link, action_run_link, payload, data>>

\* lines 95-99
LoadJson ==
    /\ pc = "loads"
    /\ LET r == json_loads(resp_body)
       IN  IF r.ok
           THEN /\ data' = r.val
                /\ pc' = "validate"
                /\ UNCHANGED <<stdout, stderr, exit_status>>
           ELSE /\ Terminate(1, <<>>, print_line(NonJSON_message(resp_body)))
                /\ UNCHANGED data
    /\ UNCHANGED <<env, email, repository_link, action_run_link, payload, requests,
                   outcome, resp_body>>

\* lines 101-106, and the return of main()
Validate ==
    /\ pc = "validate"
    /\ IF data.kind # "dict"
       THEN Terminate(1, <<>>, print_line(Traceback(data.kind)))
       ELSE LET receipt == dict_get(data, <<"receipt">>)
            IN  IF response_rejected(dict_get(data, <<"success">>), receipt)
                THEN Terminate(1, <<>>, print_line(Unexpected_message(resp_body)))
                ELSE Terminate(0, print_line(py_str(receipt)), <<>>)
    /\ UNCHANGED <<env, email, repository_link, action_run_link, payload, requests,
                   outcome, resp_body, data>>

Next ==
    \/ ResolveEmail
    \/ ResolveRepositoryLink
    \/ ResolveActionRunLink
    \/ BuildPayload
    \/ Urlopen
    \/ LoadJson
    \/ Validate

Spec == Init /\ [][Next]_vars

(***************************************************************************)
(* Vocabulary of the properties, stated on the environment and on the      *)
(* answer of the network, not on the operators of the program.             *)
(***************************************************************************)
\* the value of a variable without the whitespace around it ("" when unset)
Trimmed(name) ==
    LET v == env[name].val
        idx == {i \in 1..Len(v) : v[i] \notin {" ", "\t", "\n", "\r"}}
    IN  IF idx = {} THEN <<>>
        ELSE SubSeq(v, CHOOSE i \in idx : \A j \in idx : i <= j,
                       CHOOSE i \in idx : \A j \in idx : j <= i)

Blank(name) == Trimmed(name) = <<>>

\* GITHUB_SERVER_URL without trailing slashes, https://github.com when unset
ServerUrl ==
    LET v == env["GITHUB_SERVER_URL"].val
        idx == {i \in 1..Len(v) : v[i] # "/"}
    IN  IF ~env["GITHUB_SERVER_URL"].set THEN <<"https://github.com">>
        ELSE IF idx = {} THEN <<>>
        ELSE SubSeq(v, 1, CHOOSE i \in idx : \A j \in idx : j <= i)

\* the repository link the precedence rules call for, <<>> when no source is available
ExpectedRepositoryLink ==
    IF ~Blank("B12_REPOSITORY_LINK") THEN Trimmed("B12_REPOSITORY_LINK")
    ELSE IF ~Blank("GITHUB_REPOSITORY")
         THEN ServerUrl \o <<"/">> \o Trimmed("GITHUB_REPOSITORY")
    ELSE Trimmed("REPOSITORY_LINK")

\* the run link the precedence rules call for, <<>> when no source is available
ExpectedActionRunLink ==
    IF ~Blank("B12_ACTION_RUN_LINK") THEN Trimmed("B12_ACTION_RUN_LINK")
    ELSE IF ~Blank("GITHUB_REPOSITORY") /\ ~Blank("GITHUB_RUN_ID")
         THEN ServerUrl \o <<"/">> \o Trimmed("GITHUB_REPOSITORY")
                        \o <<"/actions/runs/">> \o Trimmed("GITHUB_RUN_ID")
    ELSE Trimmed("ACTION_RUN_LINK")

\* some required variable is missing or blank
ConfigurationError ==
    Blank("B12_EMAIL") \/ ExpectedRepositoryLink = <<>> \/ ExpectedActionRunLink = <<>>

Done == pc = "done"

\* the text print() writes for the receipt of an acceptable body
ReceiptLine == ("\"abc123\"" :> <<"abc123", "\n">>) @@ ("7" :> <<"7", "\n">>)

\* the answer carries a JSON object with a truthy success and a non-empty receipt
Acceptable(body) ==
    \E sx \in {"true", "1"}, r \in DOMAIN ReceiptLine : body = ObjectBody(sx, r)

\* what the run writes to standard output when the body is accepted
ExpectedStdout(body) ==
    IF \E sx \in {"true", "1"} : body = ObjectBody(sx, "7")
    THEN ReceiptLine["7"] ELSE ReceiptLine["\"abc123\""]

Is2xx(code) == 200 <= code /\ code < 300

\* the body as the diagnostics show it
Shown(body) == IF body = <<"\\xff">> THEN <<"\\ufffd">> ELSE body

(***************************************************************************)
(* C1: whenever B12_EMAIL is unset, empty or only whitespace, the run      *)
(* ends at its first step with exit status 2 and a message on the error    *)
(* stream that names B12_EMAIL, whatever the other variables hold.         *)
(***************************************************************************)
C1_BlankEmailExits2 ==
    Blank("B12_EMAIL") =>
        /\ pc \in {"email", "done"}
        /\ Done => /\ exit_status = 2
                   /\ Contains(stderr, <<"B12_EMAIL">>)
                   /\ stdout = <<>>

C1_Witness ==
    /\ Done
    /\ env["B12_EMAIL"].set
    /\ env["B12_EMAIL"].val # <<>>
    /\ Blank("B12_EMAIL")
    /\ ~Blank("B12_REPOSITORY_LINK")
    /\ ~Blank("GITHUB_REPOSITORY")
    /\ exit_status = 2

(***************************************************************************)
(* C2: when the endpoint answers 200 with a JSON object whose success is   *)
(* truthy and whose receipt is non-empty, the run writes exactly the       *)
(* receipt and a newline to standard output, nothing to the error stream,  *)
(* and exits with status 0.                                                *)
(***************************************************************************)
C2_AcceptedResponsePrintsReceipt ==
    (Done /\ outcome.kind = "http" /\ outcome.code = 200 /\ Acceptable(outcome.body)) =>
        /\ stdout = ExpectedStdout(outcome.body)
        /\ stderr = <<>>
        /\ exit_status = 0

C2_Witness ==
    /\ Done
    /\ outcome.kind = "http"
    /\ outcome.code = 200
    /\ outcome.body = ObjectBody("true", "\"abc123\"")
    /\ stdout = <<"abc123", "\n">>
    /\ exit_status = 0

(***************************************************************************)
(* C3: repository_link is resolved by strict precedence: the trimmed       *)
(* B12_REPOSITORY_LINK when it is non-blank; otherwise, when               *)
(* GITHUB_REPOSITORY is non-blank, the server URL without trailing         *)
(* slashes, "/" and the slug; otherwise the trimmed REPOSITORY_LINK.  When *)
(* no source is available the run ends with exit status 2, and the run     *)
(* that reached this resolution (B12_EMAIL resolved) names                 *)
(* REPOSITORY_LINK on the error stream.                                    *)
(***************************************************************************)
C3_RepositoryLinkPrecedence ==
    /\ (Done /\ ExpectedRepositoryLink = <<>>) => exit_status = 2
    /\ (~Blank("B12_EMAIL") /\ pc \notin {"email", "repository_link"}) =>
          IF ExpectedRepositoryLink # <<>>
          THEN repository_link = ExpectedRepositoryLink
          ELSE /\ Done
               /\ exit_status = 2
               /\ Contains(stderr, <<"REPOSITORY_LINK">>)
               /\ requests = <<>>

\* the CI variables win over an available REPOSITORY_LINK, trailing slash dropped
C3_Witness ==
    /\ pc = "action_run_link"
    /\ Blank("B12_REPOSITORY_LINK")
    /\ env["GITHUB_SERVER_URL"].set
    /\ env["GITHUB_SERVER_URL"].val # <<>>
    /\ ~Blank("GITHUB_REPOSITORY")
    /\ ~Blank("REPOSITORY_LINK")
    /\ repository_link = <<"https://ghe.example", "/", "owner", "/", "repo">>

(***************************************************************************)
(* C4: action_run_link is resolved by strict precedence: the trimmed       *)
(* B12_ACTION_RUN_LINK when it is non-blank; otherwise, when both          *)
(* GITHUB_REPOSITORY and GITHUB_RUN_ID are non-blank, server URL, "/",     *)
(* slug, "/actions/runs/" and run id; otherwise (also when only one of     *)
(* the two is present) the trimmed ACTION_RUN_LINK.  When no source is     *)
(* available the run ends with exit status 2, and the run that reached     *)
(* this resolution names ACTION_RUN_LINK on the error stream.              *)
(***************************************************************************)
C4_ActionRunLinkPrecedence ==
    /\ (Done /\ ExpectedActionRunLink = <<>>) => exit_status = 2
    /\ (/\ ~Blank("B12_EMAIL")
        /\ ExpectedRepositoryLink # <<>>
        /\ pc \notin {"email", "repository_link", "action_run_link"}) =>
          IF ExpectedActionRunLink # <<>>
          THEN action_run_link = ExpectedActionRunLink
          ELSE /\ Done
               /\ exit_status = 2
               /\ Contains(stderr, <<"ACTION_RUN_LINK">>)
               /\ requests = <<>>

\* only the slug is present: the fallback variable is used
C4_Witness ==
    /\ pc = "payload"
    /\ Blank("B12_ACTION_RUN_LINK")
    /\ ~Blank("GITHUB_REPOSITORY")
    /\ Blank("GITHUB_RUN_ID")
    /\ action_run_link = <<"https://ci.example/run">>

(***************************************************************************)
(* C5: whenever the request ends in a transport error (connection          *)
(* failure, timeout, or a status outside 2xx such as 500) the run exits    *)
(* with status 1, writes nothing to standard output and writes a           *)
(* diagnostic to the error stream; for a status outside 2xx the            *)
(* diagnostic contains the status code and the response body.              *)
(***************************************************************************)
C5_TransportErrorExits1 ==
    (outcome.kind \in {"URLError", "timeout"}
       \/ (outcome.kind = "http" /\ ~Is2xx(outcome.code))) =>
        /\ Done
        /\ exit_status = 1
        /\ stdout = <<>>
        /\ stderr # <<>>
        /\ outcome.kind = "http" =>
              /\ Contains(stderr, <<ToString(outcome.code)>>)
              /\ Contains(stderr, Shown(outcome.body))

C5_Witness ==
    /\ Done
    /\ outcome.kind = "http"
    /\ outcome.code = 500
    /\ outcome.body = <<"not", " ", "json">>
    /\ exit_status = 1
    /\ Contains(stderr, <<"500", ": ", "not", " ", "json">>)

(***************************************************************************)
(* C6: for every body received with status 200 that is not acceptable      *)
(* (not valid JSON, or JSON of any structure without a truthy success and  *)
(* a non-empty receipt) the run exits with status 1 and the message on     *)
(* the error stream includes the raw response body.  Stated for the        *)
(* bodies that decode as UTF-8 text.                                       *)
(***************************************************************************)
C6_RejectedBodyIsReported ==
    (/\ Done
     /\ outcome.kind = "http"
     /\ outcome.code = 200
     /\ outcome.body \notin BadUtf8Bodies
     /\ ~Acceptable(outcome.body)) =>
        /\ exit_status = 1
        /\ Contains(stderr, outcome.body)

(***************************************************************************)
(* C7: in every run that reaches the POST, the payload has exactly the     *)
(* six fields and each of them is a non-empty string.                      *)
(***************************************************************************)
C7_PayloadFieldsNonEmpty ==
    \A i \in 1..Len(requests) :
        /\ DOMAIN requests[i].data = PayloadKeys
        /\ \A k \in PayloadKeys :
              /\ requests[i].data[k] # <<>>
              /\ \A j \in 1..Len(requests[i].data[k]) : requests[i].data[k][j] # ""

\* an empty GITHUB_SERVER_URL still yields non-empty derived links
C7_Witness ==
    /\ Len(requests) = 1
    /\ env["GITHUB_SERVER_URL"].set
    /\ env["GITHUB_SERVER_URL"].val = <<>>
    /\ requests[1].data["repository_link"] = <<"/", "owner", "/", "repo">>
    /\ requests[1].data["action_run_link"]
          = <<"/", "owner", "/", "repo", "/actions/runs/", "4711">>
    /\ requests[1].data["email"] = <<"me@example.org">>

(***************************************************************************)
(* C8: every run ends with exit status 0, 1 or 2; status 0 occurs exactly  *)
(* when the receipt was written to standard output; a run that exits 1 or  *)
(* 2 writes nothing to standard output; status 2 is produced exactly by a  *)
(* missing or blank required variable, status 1 by every request,          *)
(* response or validation failure.                                         *)
(***************************************************************************)
C8_ExitStatuses ==
    /\ ~Done => (exit_status = -1 /\ stdout = <<>>)
    /\ Done =>
        /\ exit_status \in {0, 1, 2}
        /\ exit_status = 0 <=> stdout # <<>>
        /\ exit_status = 0 =>
              (outcome.kind = "http" /\ Acceptable(outcome.body)
                 /\ stdout = ExpectedStdout(outcome.body))
        /\ exit_status = 2 <=> ConfigurationError
        /\ exit_status = 1 <=>
              (/\ outcome.kind # "none"
               /\ ~(outcome.kind = "http" /\ outcome.code = 200
                      /\ Acceptable(outcome.body)))

\* the uncaught AttributeError of a non-object body also ends with status 1
C8_Witness ==
    /\ Done
    /\ exit_status = 1
    /\ outcome.code = 200
    /\ outcome.body = <<"[", "]">>
    /\ stdout = <<>>

(***************************************************************************)
(* C9 as stated: every 2xx response proceeds to parsing and validation,    *)
(* so a 2xx response with an acceptable body makes the run print the       *)
(* receipt and exit with status 0.                                         *)
(***************************************************************************)
C9_Every2xxIsValidated ==
    (Done /\ outcome.kind = "http" /\ Is2xx(outcome.code) /\ Acceptable(outcome.body)) =>
        /\ exit_status = 0
        /\ stdout = ExpectedStdout(outcome.body)

(***************************************************************************)
(* C9 amended: only status 200 proceeds to parsing and validation; a 200   *)
(* response with an acceptable body makes the run print the receipt and    *)
(* exit 0, and every other 2xx response, whatever its body, ends the run   *)
(* with status 1, nothing on standard output and the body never parsed.    *)
(***************************************************************************)
C9_Only200IsValidated ==
    /\ pc \in {"loads", "validate"} => (outcome.kind = "http" /\ outcome.code = 200)
    /\ (Done /\ outcome.kind = "http" /\ outcome.code = 200 /\ Acceptable(outcome.body)) =>
          (exit_status = 0 /\ stdout = ExpectedStdout(outcome.body))
    /\ (outcome.kind = "http" /\ Is2xx(outcome.code) /\ outcome.code # 200) =>
          /\ Done
          /\ exit_status = 1
          /\ stdout = <<>>
          /\ stderr # <<>>
          /\ data = None

C9_Witness ==
    /\ Done
    /\ outcome.kind = "http"
    /\ outcome.code = 201
    /\ outcome.body = ObjectBody("true", "\"abc123\"")
    /\ exit_status = 1
    /\ Contains(stderr, <<"HTTP ", "201">>)

(***************************************************************************)
(* C10: at most one POST is issued per run, only after email,              *)
(* repository_link and action_run_link have all been resolved; no POST is  *)
(* issued in a run that ends with status 2; after the POST failed or its   *)
(* response was rejected the run ends without a second request.            *)
(***************************************************************************)
C10_SinglePost ==
    /\ Len(requests) <= 1
    /\ Len(requests) = IF outcome.kind = "none" THEN 0 ELSE 1
    /\ requests # <<>> =>
          /\ ~ConfigurationError
          /\ email # <<>>
          /\ repository_link # <<>>
          /\ action_run_link # <<>>
          /\ requests[1].method = "POST"
    /\ (Done /\ exit_status = 2) => requests = <<>>
    /\ (Done /\ exit_status = 1) => Len(requests) = 1

\* the response was rejected and the run is over after its single request
C10_Witness ==
    /\ Done
    /\ exit_status = 1
    /\ Len(requests) = 1
    /\ outcome.kind = "http"
    /\ outcome.code = 200
    /\ outcome.body = ObjectBody("false", "absent")

====
